---- MODULE Spec2Model ----
(***************************************************************************)
(* Model of python/ad_detector.py: the Florence-2 based ad skipper.        *)
(*                                                                         *)
(* Strings are tuples of one-character strings, Python's None is the empty *)
(* tuple, a bounding box is a tuple of coordinates (four when well formed) *)
(* and time is counted in whole seconds.                                    *)
(***************************************************************************)
EXTENDS Integers, Sequences, FiniteSets, TLC

None == << >>

\* ------------------------------------------------------------- bounds
MaxPairs == 2          \* longest bboxes / labels list the model returns
MaxFiles == 3          \* most image files glob enumerates in --test-dir
MaxInterval == 1       \* largest --interval
MaxPollSeconds == 2    \* largest --max-poll-seconds
MaxInferSeconds == 2   \* longest capture + inference call, in seconds

\* ---------------------------------------------------------- constants
MAX_BBOX_AREA == 50000
VERIFY_DELAY == 2
DEFAULT_INTERVAL == 3
DEFAULT_MAX_POLL_SECONDS == 30

SKIP_AD_PATTERNS_with_ad == << <<"s", "k", "i", "p">>, <<"a", "d">> >>

\* The (?i) patterns, lower-cased: [r"(?i)skip"].
SKIP_AD_PATTERNS == << <<"s", "k", "i", "p">> >>

\* ------------------------------------------------------------ strings
Lower(c) ==
    CASE c = "S" -> "s" [] c = "K" -> "k" [] c = "I" -> "i" [] c = "P" -> "p"
      [] c = "A" -> "a" [] c = "D" -> "d" [] c = "C" -> "c" [] c = "L" -> "l"
      [] c = "O" -> "o" [] c = "E" -> "e" [] OTHER -> c

LowerStr(s) == [i \in 1..Len(s) |-> Lower(s[i])]

IsSpace(c) == c = " "

RECURSIVE LStrip(_)
LStrip(s) == IF s # << >> /\ IsSpace(Head(s)) THEN LStrip(Tail(s)) ELSE s

RECURSIVE RStrip(_)
RStrip(s) ==
    IF s # << >> /\ IsSpace(s[Len(s)]) THEN RStrip(SubSeq(s, 1, Len(s) - 1)) ELSE s

\* label.strip()
Strip(s) == RStrip(LStrip(s))

\* re.search(pattern, s) for a literal pattern compiled with (?i).
re_search(pattern, s) ==
    \E i \in 1..(Len(s) - Len(pattern) + 1) :
        LowerStr(SubSeq(s, i, i + Len(pattern) - 1)) = pattern

\* int(v / 2): Python's int() truncates toward zero.
IntHalf(v) == IF v >= 0 THEN v \div 2 ELSE -((-v) \div 2)

\* ------------------------------------------------- detect_skip_button
Area(box) == (box[3] - box[1]) * (box[4] - box[2])

TooLargeNever(box) == FALSE

\* if area > MAX_BBOX_AREA
TooLarge(box) == Area(box) > MAX_BBOX_AREA

Center(box) == <<IntHalf(box[1] + box[3]), IntHalf(box[2] + box[4])>>

Min(a, b) == IF a < b THEN a ELSE b

Raised ==
    [kind |-> "raise", position |-> None, bbox |-> None, label |-> None,
     index |-> 0]
NextPair ==
    [kind |-> "next", position |-> None, bbox |-> None, label |-> None,
     index |-> 0]
NoValid ==
    [kind |-> "none", position |-> None, bbox |-> None, label |-> None,
     index |-> 0]

RECURSIVE ScanPatternsStop(_, _, _)
ScanPatternsStop(box, label_stripped, j) ==
    IF j > Len(SKIP_AD_PATTERNS) THEN NextPair
    ELSE IF re_search(SKIP_AD_PATTERNS[j], label_stripped)
         THEN IF Len(box) < 4 THEN Raised
              ELSE IF TooLarge(box) THEN NoValid
              ELSE [kind |-> "found", position |-> Center(box), bbox |-> box,
                    label |-> label_stripped, index |-> 0]
         ELSE ScanPatternsStop(box, label_stripped, j + 1)

\* for pattern in SKIP_AD_PATTERNS: ... ; box[2] of a box that is too short
\* raises IndexError, `continue` goes on with the next pattern.
RECURSIVE ScanPatterns(_, _, _)
ScanPatterns(box, label_stripped, j) ==
    IF j > Len(SKIP_AD_PATTERNS) THEN NextPair
    ELSE IF re_search(SKIP_AD_PATTERNS[j], label_stripped)
         THEN IF Len(box) < 4 THEN Raised
              ELSE IF TooLarge(box) THEN ScanPatterns(box, label_stripped, j + 1)
              ELSE [kind |-> "found", position |-> Center(box), bbox |-> box,
                    label |-> label_stripped, index |-> 0]
         ELSE ScanPatterns(box, label_stripped, j + 1)

\* for box, label in zip(bboxes, labels): zip stops at the shorter list;
\* label.strip() of a label that is no string raises AttributeError.
\* index is the place of the pair at which the scan ended.
RECURSIVE ScanPairs(_, _, _)
ScanPairs(bboxes, labels, i) ==
    IF i > Min(Len(bboxes), Len(labels)) THEN NoValid
    ELSE IF ~labels[i].is_str THEN Raised
    ELSE LET r == ScanPatterns(bboxes[i], Strip(labels[i].chars), 1)
         IN IF r.kind = "next" THEN ScanPairs(bboxes, labels, i + 1)
            ELSE [r EXCEPT !.index = i]

\* The body of the try block: the model call, then the scan.
DetectBody(grounding_caption, generated) ==
    IF generated.raises THEN Raised
    ELSE ScanPairs(generated.bboxes, generated.labels, 1)

detect_skip_button_uncaught(grounding_caption, generated) ==
    LET r == DetectBody(grounding_caption, generated)
    IN [position |-> r.position, bbox |-> r.bbox, label |-> r.label,
        index |-> r.index,
        log |-> IF r.kind = "raise" THEN "error"
                ELSE IF r.kind = "found" THEN "detected" ELSE "none",
        raised |-> r.kind = "raise"]

\* try: ... except Exception: return None, None
detect_skip_button(grounding_caption, generated) ==
    LET r == DetectBody(grounding_caption, generated)
    IN IF r.kind = "raise"
       THEN [position |-> None, bbox |-> None, label |-> None, index |-> 0,
             log |-> "error", raised |-> FALSE]
       ELSE [position |-> r.position, bbox |-> r.bbox, label |-> r.label,
             index |-> r.index,
             log |-> IF r.kind = "found" THEN "detected" ELSE "none",
             raised |-> FALSE]

NoCall == [position |-> None, bbox |-> None, label |-> None, index |-> 0,
           log |-> "nocall", raised |-> FALSE]

\* ------------------------------------------------------------- inputs
Str(chars) == [is_str |-> TRUE, chars |-> chars]
NotAStr == [is_str |-> FALSE, chars |-> << >>]

L_Skip == Str(<<"S", "k", "i", "p">>)
L_SKIP_AD == Str(<<" ", "S", "K", "I", "P", " ", "A", "d", " ">>)
L_CloseAd == Str(<<"C", "l", "o", "s", "e", " ", "A", "d">>)
L_Ski == Str(<<"S", "k", "i">>)
Labels == {L_Skip, L_SKIP_AD, L_CloseAd, L_Ski, NotAStr}

B_small == <<10, 20, 31, 40>>
B_limit == <<0, 0, 200, 250>>
B_over == <<0, 0, 201, 250>>
B_short == <<5, 5>>
Boxes == {B_small, B_limit, B_over, B_short}

Captions == { <<"S", "k", "i", "p">>,
              <<"S", "k", "i", "p", " ", "A", "d">>,
              <<"C", "l", "o", "s", "e">> }

SeqsUpTo(S, n) == UNION {[1..k -> S] : k \in 0..n}

Generated(bboxes, labels) == [raises |-> FALSE, bboxes |-> bboxes, labels |-> labels]
GenerateRaises == [raises |-> TRUE, bboxes |-> << >>, labels |-> << >>]

\* What processor/model.generate/post_process_generation can hand back.
ModelOutputs ==
    {GenerateRaises} \cup
    {Generated(b, l) : b \in SeqsUpTo(Boxes, MaxPairs), l \in SeqsUpTo(Labels, MaxPairs)}

\* The screens and image files the runs of the program meet.
Screens ==
    { GenerateRaises,
      Generated(<< >>, << >>),
      Generated(<<B_small>>, <<L_Skip>>),
      Generated(<<B_over, B_limit>>, <<L_SKIP_AD, L_Skip>>),
      Generated(<<B_over>>, <<L_Skip>>),
      Generated(<<B_small>>, <<L_CloseAd>>),
      Generated(<<B_short>>, <<L_Skip>>) }

Captures == [ok : BOOLEAN, generated : Screens]

\* ---------------------------------------------------------- variables
VARIABLES
    pc,             \* where the program is
    args,           \* argparse result
    settings_file,  \* what settings.json holds on disk
    settings,       \* load_settings() result
    model,          \* local `model` of main: "unbound", "bound", "deleted"
    processor,      \* local `processor` of main
    load_attempted, \* from_pretrained was called
    cleaned,        \* gc.collect() / empty_cache() ran
    exit_code,      \* the process's exit code (-1 while it runs)
    generated,      \* what the model returned in the last detection call
    detection,      \* what the last detect_skip_button call returned
    now,            \* time.time()
    live,           \* locals of run_live_mode and its result
    test            \* locals of run_test_mode and its result

vars == <<pc, args, settings_file, settings, model, processor, load_attempted, cleaned,
          exit_code, generated, detection, now, live, test>>

NoSettings == [ok |-> FALSE, grounding_caption |-> << >>]

LiveIdle ==
    [start_time |-> 0, button_found |-> FALSE, click_position |-> None,
     bbox |-> None, snapshots |-> 0,
     clicks |-> 0, polls |-> 0, poll_seconds |-> 0, verify_seconds |-> 0,
     verified |-> FALSE, returned |-> FALSE, end_time |-> 0,
     status |-> "", message |-> "", has_clicked_at |-> FALSE, clicked_at |-> None]

TestIdle ==
    [image_files |-> << >>, idx |-> 0, results |-> << >>, saved |-> {},
     returned |-> FALSE, message |-> <<0, 0>>]

\* ------------------------------------------------------ load_settings
SettingsFile(exists, valid_json, is_object, has_caption, caption) ==
    [exists |-> exists, valid_json |-> valid_json, is_object |-> is_object,
     has_caption |-> has_caption, caption |-> caption]

SettingsFiles ==
    { SettingsFile(FALSE, FALSE, FALSE, FALSE, << >>),
      SettingsFile(TRUE, FALSE, FALSE, FALSE, << >>),
      SettingsFile(TRUE, TRUE, FALSE, FALSE, << >>),
      SettingsFile(TRUE, TRUE, TRUE, FALSE, << >>),
      SettingsFile(TRUE, TRUE, TRUE, TRUE, << >>) } \cup
    { SettingsFile(TRUE, TRUE, TRUE, TRUE, c) : c \in Captions }

load_settings_unchecked(file) ==
    IF ~file.exists \/ ~file.valid_json \/ ~file.is_object \/ ~file.has_caption
    THEN NoSettings
    ELSE [ok |-> TRUE, grounding_caption |-> file.caption]

\* None when the file is missing, json.load or settings.get raises, or the
\* caption is absent or empty.
load_settings(file) ==
    IF ~file.exists THEN NoSettings
    ELSE IF ~file.valid_json \/ ~file.is_object THEN NoSettings
    ELSE IF ~file.has_caption \/ file.caption = << >> THEN NoSettings
    ELSE [ok |-> TRUE, grounding_caption |-> file.caption]

\* ----------------------------------- the filter alone, on every input
FilterInit ==
    /\ pc = "filter_call"
    /\ args = [mode |-> "filter", test_dir |-> FALSE, interval |-> DEFAULT_INTERVAL,
               max_poll_seconds |-> DEFAULT_MAX_POLL_SECONDS]
    /\ settings \in [ok : {TRUE}, grounding_caption : Captions]
    /\ settings_file = SettingsFile(TRUE, TRUE, TRUE, TRUE, settings.grounding_caption)
    /\ model = "bound" /\ processor = "bound"
    /\ load_attempted = TRUE /\ cleaned = FALSE /\ exit_code = -1
    /\ generated \in ModelOutputs
    /\ detection = NoCall
    /\ now = 0 /\ live = LiveIdle /\ test = TestIdle

DetectCall ==
    /\ pc = "filter_call"
    /\ detection' = detect_skip_button(settings.grounding_caption, generated)
    /\ pc' = IF detection'.raised THEN "filter_raised" ELSE "filter_returned"
    /\ UNCHANGED <<args, settings_file, settings, model, processor, load_attempted, cleaned,
                   exit_code, generated, now, live, test>>

FilterNext == DetectCall

SpecFilter == FilterInit /\ [][FilterNext]_vars

\* --------------------------------------------------------------- main
Args ==
    [mode : {"live"}, test_dir : {FALSE}, interval : 0..MaxInterval,
     max_poll_seconds : 0..MaxPollSeconds] \cup
    [mode : {"test"}, test_dir : BOOLEAN, interval : {DEFAULT_INTERVAL},
     max_poll_seconds : {DEFAULT_MAX_POLL_SECONDS}]

Init ==
    /\ pc = "main"
    /\ args \in Args
    /\ settings_file \in SettingsFiles
    /\ settings = NoSettings
    /\ model = "unbound" /\ processor = "unbound"
    /\ load_attempted = FALSE /\ cleaned = FALSE /\ exit_code = -1
    /\ generated = Generated(<< >>, << >>)
    /\ detection = NoCall
    /\ now = 0 /\ live = LiveIdle /\ test = TestIdle

\* settings = load_settings(); if not settings: sys.exit(1)
LoadSettings ==
    /\ pc = "main"
    /\ settings' = load_settings(settings_file)
    /\ IF settings'.ok
       THEN pc' = "load_model" /\ exit_code' = exit_code
       ELSE pc' = "exited" /\ exit_code' = 1
    /\ UNCHANGED <<args, settings_file, model, processor, load_attempted,
                   cleaned, generated, detection, now, live, test>>

\* model = AutoModelForCausalLM.from_pretrained(...).to(device); model.eval()
LoadModel ==
    /\ pc = "load_model"
    /\ load_attempted' = TRUE
    /\ \E loaded \in BOOLEAN :
         IF loaded THEN model' = "bound" /\ pc' = "load_processor"
         ELSE model' = model /\ pc' = "except"
    /\ UNCHANGED <<args, settings_file, settings, processor, cleaned, exit_code, generated,
                   detection, now, live, test>>

\* processor = AutoProcessor.from_pretrained(...)
LoadProcessor ==
    /\ pc = "load_processor"
    /\ \E loaded \in BOOLEAN :
         IF loaded THEN processor' = "bound" /\ pc' = "dispatch"
         ELSE processor' = processor /\ pc' = "except"
    /\ UNCHANGED <<args, settings_file, settings, model, load_attempted, cleaned, exit_code,
                   generated, detection, now, live, test>>

\* if args.mode == "test": (sys.exit(1) without --test-dir) ... else: live
Dispatch ==
    /\ pc = "dispatch"
    /\ IF args.mode = "test"
       THEN IF ~args.test_dir
            THEN pc' = "finally" /\ exit_code' = 1
            ELSE pc' = "test_start" /\ exit_code' = exit_code
       ELSE pc' = "live_start" /\ exit_code' = exit_code
    /\ UNCHANGED <<args, settings_file, settings, model, processor, load_attempted, cleaned,
                   generated, detection, now, live, test>>

\* except Exception as e: print(...); sys.exit(1)
ExceptHandler ==
    /\ pc = "except"
    /\ exit_code' = 1
    /\ pc' = "finally"
    /\ UNCHANGED <<args, settings_file, settings, model, processor, load_attempted, cleaned,
                   generated, detection, now, live, test>>

\* finally: del model; del processor; gc.collect(); empty_cache(); print.
\* `del` of a local that was never bound raises UnboundLocalError, which
\* ends the block there and the process with code 1.
Finally ==
    /\ pc = "finally"
    /\ pc' = "exited"
    /\ IF model = "unbound"
       THEN /\ exit_code' = 1
            /\ UNCHANGED <<model, processor, cleaned>>
       ELSE /\ model' = "deleted"
            /\ IF processor = "unbound"
               THEN /\ exit_code' = 1
                    /\ UNCHANGED <<processor, cleaned>>
               ELSE /\ processor' = "deleted"
                    /\ cleaned' = TRUE
                    /\ exit_code' = IF exit_code = -1 THEN 0 ELSE exit_code
    /\ UNCHANGED <<args, settings_file, settings, load_attempted, generated, detection, now,
                   live, test>>

\* ------------------------------------------------------ run_test_mode
\* An image file: whether process_image can open it, and what the model
\* returns for it.
Images ==
    {[readable |-> FALSE, generated |-> Generated(<< >>, << >>)]} \cup
    [readable : {TRUE}, generated : Screens]

ResultRecord(file, r) ==
    [file |-> file, detected |-> r.bbox # None, position |-> r.position,
     bbox |-> r.bbox]

AppendIfDetected(results, file, r) ==
    IF r.bbox # None THEN Append(results, ResultRecord(file, r)) ELSE results

\* result = {...}; results.append(result)
AppendResult(results, file, r) == Append(results, ResultRecord(file, r))

\* image_files = glob(*.png) + glob(*.jpg); results = []
TestStart ==
    /\ pc = "test_start"
    /\ \E files \in SeqsUpTo(Images, MaxFiles) :
         test' = [TestIdle EXCEPT !.image_files = files]
    /\ pc' = "test_loop"
    /\ UNCHANGED <<args, settings_file, settings, model, processor, load_attempted, cleaned,
                   exit_code, generated, detection, now, live>>

\* One iteration of `for img_path in image_files`; a file is named by its
\* place in the enumeration.
TestImage ==
    /\ pc = "test_loop"
    /\ test.idx < Len(test.image_files)
    /\ LET file == test.idx + 1
           img == test.image_files[file]
           r == detect_skip_button(settings.grounding_caption, img.generated)
       IN IF ~img.readable
          THEN pc' = "except" /\ UNCHANGED <<generated, detection, test>>
          ELSE /\ generated' = img.generated
               /\ detection' = r
               /\ IF r.raised
                  THEN pc' = "except" /\ test' = test
                  ELSE /\ pc' = "test_loop"
                       /\ test' = [test EXCEPT
                            !.idx = file,
                            !.results = AppendResult(test.results, file, r),
                            !.saved = IF r.bbox # None THEN @ \cup {file} ELSE @]
    /\ UNCHANGED <<args, settings_file, settings, model, processor, load_attempted, cleaned,
                   exit_code, now, live>>

\* print("Test complete: N/total detections."); return results
TestReturn ==
    /\ pc = "test_loop"
    /\ test.idx >= Len(test.image_files)
    /\ test' = [test EXCEPT
         !.returned = TRUE,
         !.message = <<Cardinality({i \in 1..Len(test.results) : test.results[i].detected}),
                       Len(test.results)>>]
    /\ pc' = "finally"
    /\ UNCHANGED <<args, settings_file, settings, model, processor, load_attempted, cleaned,
                   exit_code, generated, detection, now, live>>

\* ------------------------------------------------------ run_live_mode
\* skip_ad_action: the number of clicks it issues for `position`.
skip_ad_action(position) == IF position # None THEN 1 ELSE 0

VerifyStatusAlwaysSuccess(bbox) == "success"

\* success = bbox is None; status = "success" if success else "partial"
VerifyStatus(bbox) == IF bbox = None THEN "success" ELSE "partial"

LoopGuardInclusive(elapsed, max_poll_seconds) == elapsed <= max_poll_seconds

\* while (time.time() - start_time) < max_poll_seconds
LoopGuard(elapsed, max_poll_seconds) == elapsed < max_poll_seconds

\* start_time = time.time(); button_found = False; click_position = None
LiveStart ==
    /\ pc = "live_start"
    /\ live' = [LiveIdle EXCEPT !.start_time = now]
    /\ pc' = "live_loop"
    /\ UNCHANGED <<args, settings_file, settings, model, processor, load_attempted, cleaned,
                   exit_code, generated, detection, now, test>>

\* One iteration of the while loop: capture, detect, then save the
\* annotated snapshot and break, or sleep.
\* The capture and the inference take `seconds` together.
LivePoll ==
    /\ pc = "live_loop"
    /\ LoopGuard(now - live.start_time, args.max_poll_seconds)
    /\ \E cap \in Captures, seconds \in 1..MaxInferSeconds :
         LET r == detect_skip_button(settings.grounding_caption, cap.generated)
         IN IF ~cap.ok
            THEN /\ pc' = "except"
                 /\ now' = now + seconds
                 /\ UNCHANGED <<generated, detection, live>>
            ELSE /\ generated' = cap.generated
                 /\ detection' = r
                 /\ IF r.raised
                    THEN pc' = "except" /\ now' = now + seconds /\ live' = live
                    ELSE IF r.bbox # None
                    THEN /\ live' = [live EXCEPT !.click_position = r.position,
                                                 !.bbox = r.bbox,
                                                 !.snapshots = @ + 1,
                                                 !.button_found = TRUE,
                                                 !.polls = @ + 1,
                                                 !.poll_seconds = seconds]
                         /\ now' = now + seconds
                         /\ pc' = "live_polled"
                    ELSE /\ live' = [live EXCEPT !.polls = @ + 1,
                                                 !.poll_seconds = seconds]
                         /\ now' = now + seconds + args.interval
                         /\ pc' = "live_loop"
    /\ UNCHANGED <<args, settings_file, settings, model, processor, load_attempted, cleaned,
                   exit_code, test>>

\* The while condition is false: leave the loop.
LiveTimeout ==
    /\ pc = "live_loop"
    /\ ~LoopGuard(now - live.start_time, args.max_poll_seconds)
    /\ pc' = "live_polled"
    /\ UNCHANGED <<args, settings_file, settings, model, processor, load_attempted, cleaned,
                   exit_code, generated, detection, now, live, test>>

\* if not button_found: return {partial}; skip_ad_action(click_position)
LiveClick ==
    /\ pc = "live_polled"
    /\ IF ~live.button_found
       THEN /\ live' = [live EXCEPT !.returned = TRUE, !.end_time = now,
                                    !.status = "partial", !.message = "not_found",
                                    !.has_clicked_at = FALSE]
            /\ pc' = "finally"
       ELSE \E clicked \in BOOLEAN :
              IF clicked
              THEN /\ live' = [live EXCEPT
                                 !.clicks = @ + skip_ad_action(live.click_position)]
                   /\ pc' = "verify"
              ELSE live' = live /\ pc' = "except"
    /\ UNCHANGED <<args, settings_file, settings, model, processor, load_attempted, cleaned,
                   exit_code, generated, detection, now, test>>

VerifySkipSuccessRetry ==
    /\ pc = "verify"
    /\ \E cap \in Captures, seconds \in 1..MaxInferSeconds :
         LET r == detect_skip_button(settings.grounding_caption, cap.generated)
         IN /\ now' = now + VERIFY_DELAY + seconds
            /\ IF ~cap.ok
               THEN pc' = "except" /\ UNCHANGED <<generated, detection, live>>
               ELSE /\ generated' = cap.generated
                    /\ detection' = r
                    /\ IF r.raised
                       THEN pc' = "except" /\ live' = live
                       ELSE /\ pc' = "finally"
                            /\ live' = [live EXCEPT
                                 !.clicks = @ + skip_ad_action(r.position),
                                 !.verified = TRUE,
                                 !.verify_seconds = seconds,
                                 !.returned = TRUE,
                                 !.end_time = now',
                                 !.status = VerifyStatus(r.bbox),
                                 !.message = IF r.bbox = None THEN "skipped"
                                             ELSE "may_still_be_present",
                                 !.has_clicked_at = TRUE,
                                 !.clicked_at = live.click_position]
    /\ UNCHANGED <<args, settings_file, settings, model, processor, load_attempted, cleaned,
                   exit_code, test>>

\* verify_skip_success, then run_live_mode's return: sleep 2 s, capture,
\* detect once more, classify.
VerifySkipSuccess ==
    /\ pc = "verify"
    /\ \E cap \in Captures, seconds \in 1..MaxInferSeconds :
         LET r == detect_skip_button(settings.grounding_caption, cap.generated)
         IN /\ now' = now + VERIFY_DELAY + seconds
            /\ IF ~cap.ok
               THEN pc' = "except" /\ UNCHANGED <<generated, detection, live>>
               ELSE /\ generated' = cap.generated
                    /\ detection' = r
                    /\ IF r.raised
                       THEN pc' = "except" /\ live' = live
                       ELSE /\ pc' = "finally"
                            /\ live' = [live EXCEPT
                                 !.verified = TRUE,
                                 !.verify_seconds = seconds,
                                 !.returned = TRUE,
                                 !.end_time = now',
                                 !.status = VerifyStatus(r.bbox),
                                 !.message = IF r.bbox = None THEN "skipped"
                                             ELSE "may_still_be_present",
                                 !.has_clicked_at = TRUE,
                                 !.clicked_at = live.click_position]
    /\ UNCHANGED <<args, settings_file, settings, model, processor, load_attempted, cleaned,
                   exit_code, test>>

\* ------------------------------------------------------ specification
Next ==
    \/ LoadSettings \/ LoadModel \/ LoadProcessor \/ Dispatch
    \/ TestStart \/ TestImage \/ TestReturn
    \/ LiveStart \/ LivePoll \/ LiveTimeout \/ LiveClick \/ VerifySkipSuccess
    \/ ExceptHandler \/ Finally

Spec == Init /\ [][Next]_vars

\* The steps of run_live_mode.
LiveStep == LiveStart \/ LivePoll \/ LiveTimeout \/ LiveClick \/ VerifySkipSuccess

\* run_live_mode is sequential code: it takes its next step whenever it has
\* one (every blocking call, sleep, capture or inference, returns).
FairSpec == Spec /\ WF_vars(LiveStep)

\* ------------------------------------------------------------- claims
\* Vocabulary of the properties, stated apart from the scan.
Skip == <<"s", "k", "i", "p">>

ContainsCI(s, sub) ==
    \E i \in 1..(Len(s) - Len(sub) + 1) :
        \A k \in 1..Len(sub) : Lower(s[i + k - 1]) = Lower(sub[k])

\* c is v / 2 rounded toward zero to a whole pixel.
IsHalf(c, v) ==
    IF v >= 0 THEN 2 * c <= v /\ v < 2 * c + 2 ELSE 2 * c >= v /\ v > 2 * c - 2

IsMidpoint(position, box) ==
    /\ Len(position) = 2
    /\ IsHalf(position[1], box[1] + box[3])
    /\ IsHalf(position[2], box[2] + box[4])

PairCount(g) == IF Len(g.bboxes) < Len(g.labels) THEN Len(g.bboxes) ELSE Len(g.labels)

WellFormed(g) ==
    /\ ~g.raises
    /\ \A i \in 1..PairCount(g) : g.labels[i].is_str /\ Len(g.bboxes[i]) = 4

MatchesSkip(g, i) == g.labels[i].is_str /\ ContainsCI(g.labels[i].chars, Skip)

Oversized(g, i) ==
    /\ Len(g.bboxes[i]) = 4
    /\ (g.bboxes[i][3] - g.bboxes[i][1]) * (g.bboxes[i][4] - g.bboxes[i][2]) > 50000

Acceptable(g, i) == MatchesSkip(g, i) /\ Len(g.bboxes[i]) = 4 /\ ~Oversized(g, i)

\* C1: one invocation of live mode issues at most one click, and a click
\* only after a poll returned a detection (never on the timeout path, never
\* before the first detection).
C1_AtMostOneClick ==
    /\ live.clicks <= 1
    /\ live.clicks >= 1 =>
         /\ live.button_found
         /\ live.bbox # None
         /\ live.polls >= 1
         /\ pc \notin {"live_start", "live_loop", "live_polled"}

\* C1 witness: a click was issued, the verifier still saw the button, and
\* the run returned.
C1_Witness ==
    /\ live.returned /\ live.clicks = 1 /\ live.status = "partial"
    /\ live.polls >= 2

\* C2: the filter never returns a box whose area (x2-x1)*(y2-y1) exceeds
\* 50000, whatever its label and its place in the list.
C2_OversizedNeverSelected ==
    pc = "filter_returned" /\ detection.bbox # None =>
        /\ Len(detection.bbox) = 4
        /\ (detection.bbox[3] - detection.bbox[1])
             * (detection.bbox[4] - detection.bbox[2]) <= 50000
        /\ \A i \in 1..PairCount(generated) :
             Oversized(generated, i) => detection.index # i

\* C2 witness: the list starts with an oversized box labelled Skip and the
\* filter returned a later box.
C2_Witness ==
    /\ pc = "filter_returned" /\ detection.bbox # None
    /\ PairCount(generated) >= 2
    /\ MatchesSkip(generated, 1) /\ Oversized(generated, 1)

\* C3 as claimed: the filter selects no pair whose label does not contain
\* the configured grounding caption as a case-insensitive substring.
C3_CaptionSubstring ==
    pc = "filter_returned" /\ detection.bbox # None =>
        ContainsCI(generated.labels[detection.index].chars,
                   settings.grounding_caption)

\* C3 amended: the filter selects no pair whose label does not contain
\* "skip" as a case-insensitive substring, whatever the configured caption.
C3_SkipSubstring ==
    pc = "filter_returned" /\ detection.bbox # None =>
        /\ detection.index \in 1..PairCount(generated)
        /\ detection.bbox = generated.bboxes[detection.index]
        /\ ContainsCI(generated.labels[detection.index].chars, Skip)

\* C3 witness: a pair whose label lacks "skip" precedes the selected pair.
C3_Witness ==
    /\ pc = "filter_returned" /\ detection.bbox # None
    /\ detection.index = 2
    /\ generated.labels[1].is_str /\ ~MatchesSkip(generated, 1)
    /\ ~ContainsCI(generated.labels[2].chars, settings.grounding_caption)

\* C10: on a well-formed model output the filter returns the first pair, in
\* the order returned, whose label matches and whose area is within the
\* maximum, with the midpoint of its box (in whole pixels) as center;
\* oversized matches are passed over; without such a pair it returns no
\* detection.
C10_FirstAcceptableWins ==
    pc = "filter_returned" /\ WellFormed(generated) =>
        IF \E i \in 1..PairCount(generated) : Acceptable(generated, i)
        THEN LET first == CHOOSE i \in 1..PairCount(generated) :
                            /\ Acceptable(generated, i)
                            /\ \A k \in 1..(i - 1) : ~Acceptable(generated, k)
             IN /\ detection.index = first
                /\ detection.bbox = generated.bboxes[first]
                /\ IsMidpoint(detection.position, detection.bbox)
        ELSE detection.position = None /\ detection.bbox = None

\* C10 witness: an oversized match was discarded and the scan went on to
\* select the pair after it.
C10_Witness ==
    /\ pc = "filter_returned" /\ WellFormed(generated)
    /\ PairCount(generated) >= 2
    /\ MatchesSkip(generated, 1) /\ Oversized(generated, 1)
    /\ detection.index = 2 /\ detection.position = <<20, 30>>

LiveElapsed == live.end_time - live.start_time

C4_BoundPlusInference ==
    live.returned =>
        LiveElapsed < args.max_poll_seconds + args.interval + 2
                        + live.poll_seconds + live.verify_seconds

C5_ResultClassification ==
    live.returned =>
        /\ live.status \in {"success", "partial"}
        /\ live.status = "success" <=>
             (live.clicks = 1 /\ live.verified /\ detection.bbox = None)
        /\ (live.verified /\ WellFormed(generated)) =>
             (live.status = "partial" <=>
                \E i \in 1..PairCount(generated) : Acceptable(generated, i))
        /\ ~live.button_found =>
             (live.status = "partial" /\ live.message = "not_found" /\ live.clicks = 0)
        /\ live.has_clicked_at <=> live.clicks = 1
        /\ live.has_clicked_at =>
             /\ live.bbox # None
             /\ live.clicked_at = live.click_position
             /\ IsMidpoint(live.clicked_at, live.bbox)

\* C5 witness: the button is still detected after the click: "partial"
\* with clicked_at populated.
C5_Witness ==
    /\ live.returned /\ live.status = "partial" /\ live.has_clicked_at
    /\ live.clicked_at = <<100, 125>> /\ detection.bbox = B_small

\* A failed inference call (the model raises, a label is no string, a
\* matching box is too short) returns (None, None) and raises nothing.
C6_NoDetectionOnFailure ==
    /\ ~detection.raised
    /\ detection.log = "error" => detection.position = None /\ detection.bbox = None
    /\ (generated.raises \/ (PairCount(generated) >= 1 /\ ~generated.labels[1].is_str)
          \/ (PairCount(generated) >= 1 /\ MatchesSkip(generated, 1)
                /\ Len(generated.bboxes[1]) < 4))
         => detection.log = "error"

\* A live poll whose inference failed sleeps the interval and goes back to
\* the loop test.
C6_PollContinues ==
    (pc = "live_loop" /\ live'.polls = live.polls + 1 /\ detection'.log = "error")
        => /\ pc' = "live_loop"
           /\ ~live'.button_found
           /\ live'.clicks = 0
           /\ now' = now + live'.poll_seconds + args.interval

\* C6: a failure inside an inference call does not leave detect_skip_button
\* as an exception: the call returns no detection, and a live poll that
\* failed goes on to the next loop test instead of aborting the run.
C6_FailureIsNoDetection == [] C6_NoDetectionOnFailure /\ [][C6_PollContinues]_vars

\* C6 witness: a poll whose inference failed was followed by another poll,
\* which detected the button.
C6_Witness ==
    /\ pc = "live_loop" /\ live.polls = 1
    /\ detection.log = "error" /\ generated.bboxes = <<B_short>>
    /\ now - live.start_time < args.max_poll_seconds

\* C7: when configuration loading fails the process exits with code 1 and
\* never attempts a model or processor load; a load is attempted only after
\* settings with a non-empty caption were obtained.
SettingsFileBad ==
    \/ ~settings_file.exists \/ ~settings_file.valid_json
    \/ ~settings_file.is_object \/ ~settings_file.has_caption
    \/ settings_file.caption = << >>

C7_NoLoadOnBadConfig ==
    /\ (SettingsFileBad /\ pc # "main") =>
         /\ pc = "exited" /\ exit_code = 1
         /\ ~load_attempted /\ model = "unbound" /\ processor = "unbound"
    /\ (load_attempted \/ model # "unbound" \/ processor # "unbound") =>
         /\ settings.ok
         /\ settings.grounding_caption # << >>
         /\ settings.grounding_caption = settings_file.caption

\* C7 witness: settings.json holds an empty caption and the process has
\* exited with code 1.
C7_Witness ==
    /\ pc = "exited" /\ exit_code = 1 /\ ~load_attempted
    /\ settings_file.has_caption /\ settings_file.caption = << >>

\* C8: on every path of main past configuration loading the cleanup that
\* releases the model, the processor and the device memory has run to
\* completion when the process ends.
C8_CleanupAlwaysCompletes ==
    (pc = "exited" /\ settings.ok) =>
        /\ cleaned
        /\ model # "bound" /\ processor # "bound"

\* C9: test mode returns one record per enumerated file, in order, with
\* detected = true exactly for the files whose detection is non-null
\* (position and box null otherwise), and the message reports the number
\* of detected records over the number of files.
C9_OneRecordPerFile ==
    test.returned =>
        /\ Len(test.results) = Len(test.image_files)
        /\ \A i \in 1..Len(test.results) :
             LET rec == test.results[i]
                 g == test.image_files[i].generated
             IN /\ rec.file = i
                /\ rec.detected <=> rec.bbox # None
                /\ rec.detected <=> rec.position # None
                /\ rec.detected <=> i \in test.saved
                /\ WellFormed(g) =>
                     (rec.detected <=> \E k \in 1..PairCount(g) : Acceptable(g, k))
                /\ ~WellFormed(g) => ~rec.detected
        /\ test.message[1] =
             Cardinality({i \in 1..Len(test.results) : test.results[i].detected})
        /\ test.message[2] = Len(test.image_files)

\* C9 witness: three images, two with a small box labelled Skip and one
\* without a matching label: three records, "2/3 detections".
C9_Witness ==
    /\ test.returned /\ Len(test.image_files) = 3
    /\ test.message = <<2, 3>>
    /\ ~test.results[2].detected
    /\ test.image_files[2].generated = Generated(<<B_small>>, <<L_CloseAd>>)
====
